---- MODULE Spec2Model ----
(***************************************************************************)
(* HSLproxy, canonical variant (src/app/main.py): the /departures handler. *)
(* One inbound request (stops, n) makes one upstream call; the JSON answer *)
(* is normalised into Departure objects, sorted, truncated and returned,   *)
(* or the request ends with an exception.                                  *)
(*                                                                         *)
(* Representation:                                                         *)
(*  - a JSON object is a record whose DOMAIN is the set of keys present;   *)
(*    a missing key gives KeyError on subscription, as in Python;          *)
(*  - a naive UTC datetime made by datetime.utcfromtimestamp(t) is         *)
(*    represented by t, its Unix seconds (the conversion preserves order   *)
(*    and equality, which is all the handler uses);                        *)
(*  - Optional[datetime] is a sequence of length at most one;              *)
(*  - the value a call produces is a record with field kind, which is      *)
(*    "return" for a returned value and the exception class otherwise;     *)
(*  - the search string stops and the generation timestamp do not          *)
(*    influence control flow and are not represented;                      *)
(*  - the handler is a coroutine: a step of the model runs from one        *)
(*    suspension point (session.post, response.json(), the exits of the    *)
(*    two async with blocks) to the next. Cancellation of the handler's    *)
(*    task is done by the server, outside this file, and is not modelled.  *)
(***************************************************************************)
EXTENDS Integers, Sequences, FiniteSets, TLC

VARIABLES pc, n, upstream, inflight, raw_data, normalized, outcome

vars == <<pc, n, upstream, inflight, raw_data, normalized, outcome>>

(***************************************************************************)
(* Bounds of the explored inputs.                                          *)
(***************************************************************************)
MaxN == 3          \* largest explicit n of a request
MaxNeg == 1        \* smallest explicit n is -MaxNeg
MaxStops == 2      \* stops in data.stops
MaxTotal == 2      \* stoptimes in the whole payload, over all stops
MaxOffset == 2     \* realtimeDeparture and scheduledDeparture in 0..MaxOffset

DefaultN == 5      \* departure_proxy(stops, n: int = 5)

ServiceDays == {1000000000}
Offsets == 0..MaxOffset
NValues == ((0 - MaxNeg)..MaxN) \cup {DefaultN}
BadStatuses == {404, 500, 503}
Failures == {"dns", "refused", "timeout"}

Min(a, b) == IF a <= b THEN a ELSE b

(***************************************************************************)
(* Upstream stoptime entries (the shape requested by                       *)
(* Settings.graphql_template).                                             *)
(***************************************************************************)
\* the leaf keys single_departure and get_timestamps subscript
RequiredFields ==
    {"serviceDay", "scheduledDeparture", "realtimeDeparture",
     "code", "name", "shortName", "headsign"}

FullEntry(d, s, r) ==
    [stop |-> [name |-> "Malmin asema", code |-> "H3030"],
     serviceDay |-> d,
     scheduledDeparture |-> s,
     realtimeDeparture |-> r,
     trip |-> [route |-> [shortName |-> "55"]],
     headsign |-> "Rautatientori"]

Drop(rec, key) == [k \in (DOMAIN rec) \ {key} |-> rec[k]]

\* e without one of its fields (nested for code, name, shortName)
Without(e, f) ==
    CASE f = "code" -> [e EXCEPT !.stop = Drop(e.stop, "code")]
      [] f = "name" -> [e EXCEPT !.stop = Drop(e.stop, "name")]
      [] f = "shortName" -> [e EXCEPT !.trip = [route |-> Drop(e.trip.route, "shortName")]]
      [] OTHER -> Drop(e, f)

\* Complete entries. The scheduled offset runs against the real-time one,
\* so that ranking by scheduled and ranking by estimated disagree.
WellFormedEntries ==
    {FullEntry(d, MaxOffset - r, r) : d \in ServiceDays, r \in Offsets}

\* entries with one of the keys missing
BadEntries ==
    {Without(FullEntry(d, 0, 0), f) : d \in ServiceDays, f \in RequiredFields}

Entries == WellFormedEntries \cup BadEntries

\* the key f can be subscripted in entry e
Has(e, f) ==
    CASE f \in {"code", "name"} -> "stop" \in DOMAIN e /\ f \in DOMAIN e.stop
      [] f = "shortName" ->
            "trip" \in DOMAIN e /\ "route" \in DOMAIN e.trip
                /\ f \in DOMAIN e.trip.route
      [] OTHER -> f \in DOMAIN e

HasRequired(e) == \A f \in RequiredFields : Has(e, f)

(***************************************************************************)
(* Upstream payloads: data.stops is a list of at most MaxStops stops, each *)
(* with a list stoptimesWithoutPatterns; at most MaxTotal entries in all.  *)
(***************************************************************************)
RECURSIVE Sum(_)
Sum(lens) == IF lens = <<>> THEN 0 ELSE Head(lens) + Sum(Tail(lens))

\* the number of stoptimes of each stop, for every shape within the bounds
StopLengths ==
    UNION {{lens \in [1..k -> 0..MaxTotal] : Sum(lens) <= MaxTotal} : k \in 0..MaxStops}

\* the payload whose i-th stop has the next lens[i] entries of es
Payload(lens, es) ==
    [data |-> [stops |->
        [i \in 1..Len(lens) |->
            [stoptimesWithoutPatterns |->
                SubSeq(es, Sum(SubSeq(lens, 1, i - 1)) + 1, Sum(SubSeq(lens, 1, i)))]]]]

\* 200 answers that are JSON but lack the data.stops path
ShapelessBodies == {[errors |-> <<"Syntax error">>], [data |-> [routes |-> <<>>]]}

NotJson == [text |-> "<html>Service Unavailable</html>"]

\* What the transit API has done so far with the one POST of a request:
\* nothing yet, a connection-level failure, or a response head with its
\* status; read tells how reading the body went once response.json() ended.
NoUpstream ==
    [kind |-> "pending", status |-> 0, failure |-> "none", read |-> "unread",
     body |-> NotJson]

ConnectionFailure(f) == [NoUpstream EXCEPT !.kind = "failure", !.failure = f]

Response(status) == [NoUpstream EXCEPT !.kind = "response", !.status = status]

BodyRead(u, read, body) == [u EXCEPT !.read = read, !.body = body]

(***************************************************************************)
(* Values produced by calls: a returned value or a raised exception.       *)
(***************************************************************************)
Return(v) == [kind |-> "return", status_code |-> 200, detail |-> <<>>, value |-> v]

Raise(cls) == [kind |-> cls, status_code |-> 0, detail |-> <<>>, value |-> <<>>]

HTTPException(status_code, detail) ==
    [kind |-> "HTTPException", status_code |-> status_code, detail |-> detail,
     value |-> <<>>]

NotFoundDetail == <<"No stops matching the query were found.">>
BadStatusDetail(status) ==
    <<"Request to HSL API failed with code ", ToString(status), ".">>
UnreachableDetail == <<"Unexpected error when fetching data from HSL.">>
ParseFailureDetail == <<"Received response from HSL API but failed to parse it.">>

NoOutcome == Raise("pending")

(***************************************************************************)
(* class Departure                                                         *)
(***************************************************************************)
best_time(self) ==
    IF self.estimated = <<>> THEN self.scheduled ELSE self.estimated[1]

\* The body evaluates the comparison and falls off the end: the call
\* returns None whatever the two departures are.
Departure__lt__(self, other) ==
    LET compared == best_time(self) < best_time(other)
    IN  "None"

\* Truth value of what __lt__ returned, as list.sort takes it.
IsTrue(v) == v = "True"

ISLT(x, y) == IsTrue(Departure__lt__(x, y))

(***************************************************************************)
(* sorted(all_departures): CPython's list.sort for short lists, i.e. the   *)
(* initial run is counted (and reversed if strictly descending), then the  *)
(* remaining elements are placed by binary insertion.                      *)
(***************************************************************************)
Reverse(s) == [i \in 1..Len(s) |-> s[Len(s) + 1 - i]]

RECURSIVE RunEnd(_, _, _)
RunEnd(a, i, descending) ==
    IF i = Len(a) THEN i
    ELSE IF ISLT(a[i + 1], a[i]) = descending THEN RunEnd(a, i + 1, descending)
    ELSE i

count_run(a) ==
    IF Len(a) <= 1 THEN a
    ELSE LET descending == ISLT(a[2], a[1])
             e == RunEnd(a, 2, descending)
         IN  IF descending
             THEN Reverse(SubSeq(a, 1, e)) \o SubSeq(a, e + 1, Len(a))
             ELSE a

RunLength(a) ==
    IF Len(a) <= 1 THEN Len(a) ELSE RunEnd(a, 2, ISLT(a[2], a[1]))

RECURSIVE BinPos(_, _, _, _)
BinPos(a, pivot, l, r) ==
    IF l >= r THEN l
    ELSE LET p == l + ((r - l) \div 2)
         IN  IF ISLT(pivot, a[p]) THEN BinPos(a, pivot, l, p)
             ELSE BinPos(a, pivot, p + 1, r)

RECURSIVE binarysort(_, _)
binarysort(a, start) ==
    IF start > Len(a) THEN a
    ELSE LET pivot == a[start]
             l == BinPos(a, pivot, 1, start)
             moved == SubSeq(a, 1, l - 1) \o <<pivot>> \o SubSeq(a, l, start - 1)
                         \o SubSeq(a, start + 1, Len(a))
         IN  binarysort(moved, start + 1)

sorted(a) == binarysort(count_run(a), RunLength(a) + 1)

\* itertools.islice(iterable, stop), consumed by list()
islice(a, stop) ==
    IF stop < 0 THEN Raise("ValueError")
    ELSE Return(SubSeq(a, 1, Min(stop, Len(a))))

(***************************************************************************)
(* Normalisation                                                           *)
(***************************************************************************)
get_timestamps(departure) ==
    IF "serviceDay" \notin DOMAIN departure THEN Raise("KeyError")
    ELSE IF "scheduledDeparture" \notin DOMAIN departure THEN Raise("KeyError")
    ELSE IF "realtimeDeparture" \notin DOMAIN departure THEN Raise("KeyError")
    ELSE LET day_start_unix == departure.serviceDay
             scheduled_time == departure.scheduledDeparture
             real_time == departure.realtimeDeparture
         IN  Return(<<day_start_unix + scheduled_time, day_start_unix + real_time>>)

single_departure(data) ==
    LET ts == get_timestamps(data)
    IN  IF ts.kind # "return" THEN ts
        ELSE IF "stop" \notin DOMAIN data THEN Raise("KeyError")
        ELSE IF "code" \notin DOMAIN data.stop THEN Raise("KeyError")
        ELSE IF "name" \notin DOMAIN data.stop THEN Raise("KeyError")
        ELSE IF "trip" \notin DOMAIN data THEN Raise("KeyError")
        ELSE IF "route" \notin DOMAIN data.trip THEN Raise("KeyError")
        ELSE IF "shortName" \notin DOMAIN data.trip.route THEN Raise("KeyError")
        ELSE IF "headsign" \notin DOMAIN data THEN Raise("KeyError")
        ELSE Return([stop |-> data.stop.code \o " " \o data.stop.name,
                     line |-> data.trip.route.shortName,
                     destination |-> <<data.headsign>>,
                     scheduled |-> ts.value[1],
                     estimated |-> <<ts.value[2]>>])

\* the stoptime entries of all stops, in upstream order
RECURSIVE stoptimes(_)
stoptimes(found_stops) ==
    IF found_stops = <<>> THEN <<>>
    ELSE Head(found_stops).stoptimesWithoutPatterns \o stoptimes(Tail(found_stops))

\* all_departures with entries that fail to normalise left out
all_departures_skip_failed(found_stops) ==
    LET entries == stoptimes(found_stops)
        good == SelectSeq(entries, LAMBDA e : single_departure(e).kind = "return")
    IN  Return([i \in 1..Len(good) |-> single_departure(good[i]).value])

\* the loop building all_departures: the first entry that fails ends it
all_departures(found_stops) ==
    LET entries == stoptimes(found_stops)
        made == [i \in 1..Len(entries) |-> single_departure(entries[i])]
        failed == {i \in 1..Len(entries) : made[i].kind # "return"}
    IN  IF failed # {}
        THEN made[CHOOSE i \in failed : \A j \in failed : i <= j]
        ELSE Return([i \in 1..Len(entries) |-> made[i].value])

\* departures without the islice cut
departures_untruncated(all, n_) ==
    IF n_ < 0 THEN Raise("ValueError") ELSE Return(sorted(all))

\* departures = list(islice(sorted(all_departures), n))
departures(all, n_) == islice(sorted(all), n_)

parse_json(raw, n_) ==
    IF "data" \notin DOMAIN raw THEN Raise("KeyError")
    ELSE IF "stops" \notin DOMAIN raw.data THEN Raise("KeyError")
    ELSE LET found_stops == raw.data.stops
         IN  IF Len(found_stops) = 0 THEN HTTPException(404, NotFoundDetail)
             ELSE LET all == all_departures(found_stops)
                  IN  IF all.kind # "return" THEN all
                      ELSE LET cut == departures(all.value, n_)
                           IN  IF cut.kind # "return" THEN cut
                               ELSE Return([departures |-> cut.value])

(***************************************************************************)
(* Upstream client                                                         *)
(***************************************************************************)
\* async with session.post(...) when no response arrives: the exception raised
session_post(failure) ==
    IF failure = "timeout" THEN Raise("TimeoutError")
    ELSE Raise("ClientConnectorError")

\* await response.json(): read is how reading the body went
response_json(read, body) ==
    IF read = "json" THEN Return(body)
    ELSE IF read = "notjson" THEN Raise("ContentTypeError")
    ELSE Raise("ClientPayloadError")

\* if response.status == 200: ... else: raise HTTPException(502)
\* (for 200 the value is that of the awaited response.json())
on_response(status, read, body) ==
    IF status = 200 THEN response_json(read, body)
    ELSE HTTPException(502, BadStatusDetail(status))

\* get_departures with an except clause that catches every exception
get_departures_catch_all(r) ==
    IF r.kind # "return"
    THEN HTTPException(500, UnreachableDetail)
    ELSE r

\* the try statement of get_departures, r being what its body produced
get_departures(r) ==
    IF r.kind = "ClientConnectorError"
    THEN HTTPException(500, UnreachableDetail)
    ELSE r

(***************************************************************************)
(* Request handler                                                         *)
(***************************************************************************)
\* departure_proxy without the clause that re-raises HTTPException
departure_proxy_try_no_reraise(raw, n_) ==
    LET r == parse_json(raw, n_)
    IN  IF r.kind = "return" THEN r
        ELSE HTTPException(500, ParseFailureDetail)

\* the try statement of departure_proxy
departure_proxy_try(raw, n_) ==
    LET r == parse_json(raw, n_)
    IN  IF r.kind = "return" THEN r
        ELSE IF r.kind = "HTTPException" THEN r
        ELSE HTTPException(500, ParseFailureDetail)

\* departure_proxy from the return of get_departures to its end
departure_proxy(r, n_) ==
    LET got == get_departures(r)
    IN  IF got.kind # "return" THEN got
        ELSE departure_proxy_try(got.value, n_)

Init ==
    /\ pc = "idle"
    /\ n = DefaultN
    /\ upstream = NoUpstream
    /\ inflight = NoOutcome
    /\ raw_data = NotJson
    /\ normalized = FALSE
    /\ outcome = NoOutcome

\* GET /departures?stops=..[&n=..] reaches the handler, which runs to the
\* POST of get_departures and is suspended in session.post
Request ==
    /\ pc = "idle"
    /\ \E v \in NValues : n' = v
    /\ pc' = "post"
    /\ UNCHANGED <<upstream, inflight, raw_data, normalized, outcome>>

\* session.post fails at the connection level: the exception leaves the
\* inner async with and the session's exit is awaited
PostFails ==
    /\ pc = "post"
    /\ \E f \in Failures :
        /\ upstream' = ConnectionFailure(f)
        /\ inflight' = session_post(f)
    /\ pc' = "close"
    /\ UNCHANGED <<n, raw_data, normalized, outcome>>

\* the response head arrives; the status is tested, then either
\* response.json() is awaited or HTTPException(502) is raised and the
\* response's exit is awaited
PostResponds ==
    /\ pc = "post"
    /\ \E status \in {200} \cup BadStatuses :
        /\ upstream' = Response(status)
        /\ IF status = 200
           THEN pc' = "json" /\ inflight' = inflight
           ELSE pc' = "release"
                /\ inflight' = on_response(status, "unread", NotJson)
    /\ UNCHANGED <<n, raw_data, normalized, outcome>>

\* response.json() ends with the body read as read; the response's exit is awaited
ReadBody(read, body) ==
    /\ upstream' = BodyRead(upstream, read, body)
    /\ inflight' = on_response(upstream.status, read, body)
    /\ pc' = "release"
    /\ UNCHANGED <<n, raw_data, normalized, outcome>>

Json ==
    /\ pc = "json"
    /\ \/ \E lens \in StopLengths : \E es \in [1..Sum(lens) -> Entries] :
            ReadBody("json", Payload(lens, es))
       \/ \E b \in ShapelessBodies : ReadBody("json", b)
       \/ \E read \in {"notjson", "broken"} : ReadBody(read, NotJson)

\* the response is released; the session's exit is awaited
Release ==
    /\ pc = "release"
    /\ pc' = "close"
    /\ UNCHANGED <<n, upstream, inflight, raw_data, normalized, outcome>>

\* the session is closed; get_departures ends and departure_proxy runs to
\* its end without suspending again
Close ==
    /\ pc = "close"
    /\ LET got == get_departures(inflight)
       IN  /\ normalized' = (got.kind = "return")
           /\ raw_data' = IF got.kind = "return" THEN got.value ELSE raw_data
    /\ outcome' = departure_proxy(inflight, n)
    /\ pc' = "done"
    /\ UNCHANGED <<n, upstream, inflight>>

Next == Request \/ PostFails \/ PostResponds \/ Json \/ Release \/ Close

Spec == Init /\ [][Next]_vars

(***************************************************************************)
(* Vocabulary of the properties                                            *)
(***************************************************************************)
Done == pc = "done"

Succeeded == Done /\ outcome.kind = "return"

NotFound == outcome = HTTPException(404, NotFoundDetail)

BadUpstreamStatus == outcome.kind = "HTTPException" /\ outcome.status_code = 502

UpstreamUnreachable == outcome = HTTPException(500, UnreachableDetail)

ParseFailure == outcome = HTTPException(500, ParseFailureDetail)

\* the upstream answered 200 with a JSON body that has the data.stops list
GotStops ==
    /\ upstream.kind = "response" /\ upstream.status = 200
    /\ upstream.read = "json"
    /\ "data" \in DOMAIN upstream.body
    /\ "stops" \in DOMAIN upstream.body.data

UpstreamEntries == stoptimes(upstream.body.data.stops)

Result == outcome.value.departures

\* every entry of the payload has every field the normaliser reads
AllWellFormed ==
    \A i \in 1..Len(UpstreamEntries) : HasRequired(UpstreamEntries[i])

\* the fields whose absence is said to fail the request
NamedFields == {"code", "name", "serviceDay", "scheduledDeparture", "shortName"}

LacksNamedField(e) == \E f \in NamedFields : ~Has(e, f)

LacksOnlyRealtime(e) ==
    /\ ~Has(e, "realtimeDeparture")
    /\ \A f \in RequiredFields \ {"realtimeDeparture"} : Has(e, f)

Injections(m, k) ==
    {f \in [1..m -> 1..k] : \A i, j \in 1..m : f[i] = f[j] => i = j}

(***************************************************************************)
(* C1: a successful DepartureList is sorted ascending by effective time:   *)
(* for every adjacent pair (a, b), best_time(a) <= best_time(b).           *)
(***************************************************************************)
C1_SortedByEffectiveTime ==
    Succeeded =>
        \A i \in 1..(Len(Result) - 1) :
            best_time(Result[i]) <= best_time(Result[i + 1])

(***************************************************************************)
(* C2: the handler ends in a DepartureList, NotFound, BadUpstreamStatus,   *)
(* UpstreamUnreachable or ParseFailure; nothing else escapes.              *)
(***************************************************************************)
C2_OutcomeSetClosed ==
    Done =>
        \/ outcome.kind = "return"
        \/ NotFound
        \/ BadUpstreamStatus
        \/ UpstreamUnreachable
        \/ ParseFailure

(***************************************************************************)
(* C3: status 200 with an empty data.stops list ends in NotFound (404,     *)
(* "No stops matching the query were found."), for every n.                *)
(***************************************************************************)
C3_EmptyStopsIsNotFound ==
    (Done /\ GotStops /\ upstream.body.data.stops = <<>>) =>
        /\ outcome.kind = "HTTPException"
        /\ outcome.status_code = 404
        /\ outcome.detail = NotFoundDetail

C3_Witness ==
    /\ Done /\ normalized /\ GotStops /\ upstream.body.data.stops = <<>>
    /\ n < 0
    /\ outcome.status_code = 404

(***************************************************************************)
(* C4: a connection-level failure of the upstream call (DNS, refused       *)
(* connection, timeout) ends in UpstreamUnreachable (500).                 *)
(***************************************************************************)
C4_ConnectionFailureIsUnreachable ==
    (Done /\ upstream.kind = "failure") => UpstreamUnreachable

(***************************************************************************)
(* C5: an upstream status N other than 200 ends in BadUpstreamStatus (502) *)
(* whose detail contains N; the body is never normalised.                  *)
(***************************************************************************)
C5_BadStatusIs502 ==
    (upstream.kind = "response" /\ upstream.status # 200) =>
        /\ ~normalized
        /\ upstream.read = "unread"
        /\ pc \in {"release", "close", "done"}
        /\ Done =>
            /\ outcome.kind = "HTTPException"
            /\ outcome.status_code = 502
            /\ \E i \in 1..Len(outcome.detail) :
                  outcome.detail[i] = ToString(upstream.status)

C5_Witness ==
    /\ Done /\ upstream.kind = "response" /\ upstream.status = 503
    /\ outcome.status_code = 502

(***************************************************************************)
(* C6: for n > 0 a successful result has at most n departures.             *)
(***************************************************************************)
C6_AtMostN ==
    (Succeeded /\ n > 0) => Len(Result) <= n

C6_Witness ==
    /\ Succeeded /\ n > 0
    /\ Len(UpstreamEntries) > n
    /\ Len(upstream.body.data.stops) > 1
    /\ Len(Result) = n

(***************************************************************************)
(* C7: for n > 0 the result has exactly min(n, k) of the k normalised      *)
(* departures, and no departure left out has a strictly earlier effective  *)
(* time than one that is returned.                                         *)
(***************************************************************************)
C7_KeepsEarliest ==
    (Succeeded /\ n > 0) =>
        LET all == all_departures(upstream.body.data.stops).value
            k == Len(all)
            m == Len(Result)
        IN  /\ m = Min(n, k)
            /\ \E f \in Injections(m, k) :
                /\ \A i \in 1..m : Result[i] = all[f[i]]
                /\ \A j \in 1..k : (\A i \in 1..m : f[i] # j) =>
                      \A i \in 1..m : ~(best_time(all[j]) < best_time(Result[i]))

(***************************************************************************)
(* C8: an entry without realtimeDeparture (all other fields present) is    *)
(* normalised into a Departure with estimated absent; the request does not *)
(* fail because of it.                                                     *)
(***************************************************************************)
C8_MissingRealtimeTolerated ==
    (/\ Done /\ GotStops /\ n >= 0
     /\ UpstreamEntries # <<>>
     /\ \A i \in 1..Len(UpstreamEntries) :
           HasRequired(UpstreamEntries[i]) \/ LacksOnlyRealtime(UpstreamEntries[i])
     /\ \E i \in 1..Len(UpstreamEntries) : LacksOnlyRealtime(UpstreamEntries[i]))
    => outcome.kind = "return"

(***************************************************************************)
(* C9: for n <= 0, a payload with at least one matching stop and           *)
(* well-formed stoptimes gives a successful, empty departures list.        *)
(***************************************************************************)
C9_NonPositiveNGivesEmpty ==
    (/\ Done /\ GotStops /\ n <= 0
     /\ upstream.body.data.stops # <<>>
     /\ AllWellFormed)
    => (outcome.kind = "return" /\ Result = <<>>)

(***************************************************************************)
(* C10: if any stoptime entry of any stop lacks a required field, the      *)
(* request ends in ParseFailure (500), wherever the entry is and whatever  *)
(* n is; no DepartureList is returned.                                     *)
(***************************************************************************)
C10_BadEntryFailsRequest ==
    (/\ Done /\ GotStops
     /\ \E i \in 1..Len(UpstreamEntries) : LacksNamedField(UpstreamEntries[i]))
    => (/\ outcome.kind = "HTTPException"
        /\ outcome.status_code = 500
        /\ outcome.detail = ParseFailureDetail)

C10_Witness ==
    /\ Done /\ GotStops /\ n = 1
    /\ Len(UpstreamEntries) = 2
    /\ HasRequired(UpstreamEntries[1])
    /\ LacksNamedField(UpstreamEntries[2])
    /\ outcome.status_code = 500

====
